---- MODULE Spec2Model ----
(***************************************************************************)
(* ModelSpec example scripts (examples/python): reading a safetensors     *)
(* container (8-byte length prefix, JSON header, raw body), replacing the  *)
(* "modelspec." metadata namespace, hashing the body and writing the       *)
(* container back.                                                         *)
(*                                                                         *)
(* Text is a sequence of Unicode code points, a file is a sequence of      *)
(* bytes (0..255).  A Python value is a record [t, v]:                     *)
(*   [t |-> "str",  v |-> <<code points>>]                                 *)
(*   [t |-> "int",  v |-> n]                                               *)
(*   [t |-> "list", v |-> <<values>>]                                      *)
(*   [t |-> "dict", v |-> <<  <<key text, value>>, ... >>]  (insertion     *)
(*                                                    order, unique keys) *)
(*   [t |-> "none", v |-> <<>>]                                            *)
(***************************************************************************)
EXTENDS Integers, Sequences, FiniteSets, TLC

(***************************************************************************)
(* Text and byte helpers                                                   *)
(***************************************************************************)

Range(s) == {s[i] : i \in 1..Len(s)}

\* s[a..b] (1-based, inclusive), empty when b < a
Slice(s, a, b) == IF b < a THEN <<>> ELSE SubSeq(s, a, b)

\* str.startswith
StartsWith(s, p) == Len(s) >= Len(p) /\ SubSeq(s, 1, Len(p)) = p

\* the first position at or after i whose element is not in the set run,
\* Len(s) + 1 if none
FirstOutside(s, i, run) ==
    LET near == i + 15
        N == {j \in i..(IF near < Len(s) THEN near ELSE Len(s)) : s[j] \notin run}
        J == IF N # {} THEN N ELSE {j \in (near + 1)..Len(s) : s[j] \notin run}
    IN  IF J = {} THEN Len(s) + 1 ELSE CHOOSE j \in J : \A k \in J : j <= k

\* the first position at or after i whose element is in the set stops,
\* Len(s) + 1 if none
FirstInside(s, i, stops) ==
    LET near == i + 15
        N == {j \in i..(IF near < Len(s) THEN near ELSE Len(s)) : s[j] \in stops}
        J == IF N # {} THEN N ELSE {j \in (near + 1)..Len(s) : s[j] \in stops}
    IN  IF J = {} THEN Len(s) + 1 ELSE CHOOSE j \in J : \A k \in J : j <= k

\* one lowercase hexadecimal digit, as a code point
HexDigit(n) == IF n < 10 THEN 48 + n ELSE 87 + n

\* value of a hexadecimal digit code point (either case), -1 if it is none
HexVal(c) ==
    IF c \in 48..57 THEN c - 48
    ELSE IF c \in 97..102 THEN c - 87
    ELSE IF c \in 65..70 THEN c - 55
    ELSE -1

\* bytes.hex(): two lowercase digits per byte
RECURSIVE HexOfBytes(_)
HexOfBytes(bs) ==
    IF bs = <<>> THEN <<>>
    ELSE <<HexDigit(Head(bs) \div 16), HexDigit(Head(bs) % 16)>> \o HexOfBytes(Tail(bs))

\* str.encode('utf-8') of one code point
Utf8OfChar(c) ==
    IF c < 128 THEN <<c>>
    ELSE IF c < 2048 THEN <<192 + (c \div 64), 128 + (c % 64)>>
    ELSE IF c < 65536 THEN
        <<224 + (c \div 4096), 128 + ((c \div 64) % 64), 128 + (c % 64)>>
    ELSE <<240 + (c \div 262144), 128 + ((c \div 4096) % 64),
           128 + ((c \div 64) % 64), 128 + (c % 64)>>

\* the characters UTF-8 writes as themselves
Ascii == 0..127

\* str.encode('utf-8'): ASCII runs are copied, every other character expands
RECURSIVE Utf8EncodeFrom(_, _)
Utf8EncodeFrom(s, i) ==
    LET j == FirstOutside(s, i, Ascii) IN
    IF j > Len(s) THEN Slice(s, i, Len(s))
    ELSE Slice(s, i, j - 1) \o Utf8OfChar(s[j]) \o Utf8EncodeFrom(s, j + 1)

Utf8Encode(s) == Utf8EncodeFrom(s, 1)

IsCont(b) == b \in 128..191

\* bytes.decode('utf-8', 'surrogatepass') from byte i on:
\* [ok |-> TRUE, v |-> code points] or [ok |-> FALSE, v |-> <<>>]
RECURSIVE Utf8DecodeFrom(_, _, _)
Utf8DecodeFrom(bs, i, acc) ==
    IF i > Len(bs) THEN [ok |-> TRUE, v |-> acc]
    ELSE LET b == bs[i]
             n == Len(bs) - i
         IN  IF b < 128 THEN
                 LET j == FirstOutside(bs, i, Ascii) IN
                 Utf8DecodeFrom(bs, j, acc \o Slice(bs, i, j - 1))
             ELSE IF b \in 194..223 /\ n >= 1 /\ IsCont(bs[i + 1]) THEN
                 Utf8DecodeFrom(bs, i + 2,
                                Append(acc, (b - 192) * 64 + (bs[i + 1] - 128)))
             ELSE IF b \in 224..239 /\ n >= 2 /\ IsCont(bs[i + 1]) /\ IsCont(bs[i + 2])
                     /\ (b = 224 => bs[i + 1] >= 160) THEN
                 Utf8DecodeFrom(bs, i + 3,
                                Append(acc, (b - 224) * 4096 + (bs[i + 1] - 128) * 64
                                            + (bs[i + 2] - 128)))
             ELSE IF b \in 240..244 /\ n >= 3 /\ IsCont(bs[i + 1]) /\ IsCont(bs[i + 2])
                     /\ IsCont(bs[i + 3]) /\ (b = 240 => bs[i + 1] >= 144)
                     /\ (b = 244 => bs[i + 1] <= 143) THEN
                 Utf8DecodeFrom(bs, i + 4,
                                Append(acc, (b - 240) * 262144 + (bs[i + 1] - 128) * 4096
                                            + (bs[i + 2] - 128) * 64 + (bs[i + 3] - 128)))
             ELSE [ok |-> FALSE, v |-> <<>>]

Utf8Decode(bs) == Utf8DecodeFrom(bs, 1, <<>>)

(***************************************************************************)
(* Python values                                                           *)
(***************************************************************************)

PyStr(s)   == [t |-> "str",  v |-> s]
PyInt(n)   == [t |-> "int",  v |-> n]
PyList(xs) == [t |-> "list", v |-> xs]
PyDict(ps) == [t |-> "dict", v |-> ps]
PyBool(b)  == [t |-> "bool", v |-> b]
PyNone     == [t |-> "none", v |-> <<>>]

\* the keys of a dict's pair sequence, in order
Keys(ps) == [i \in 1..Len(ps) |-> ps[i][1]]

\* key in d
HasKey(ps, k) == \E i \in 1..Len(ps) : ps[i][1] = k

\* d[key] (only used where the key is present)
Get(ps, k) == ps[CHOOSE i \in 1..Len(ps) : ps[i][1] = k][2]

\* d[key] = val: an existing key keeps its place, a new key goes last
Put(ps, k, val) ==
    IF HasKey(ps, k)
    THEN [i \in 1..Len(ps) |-> IF ps[i][1] = k THEN <<k, val>> ELSE ps[i]]
    ELSE Append(ps, <<k, val>>)

\* del d[key]
RECURSIVE Del(_, _)
Del(ps, k) ==
    IF ps = <<>> THEN <<>>
    ELSE IF Head(ps)[1] = k THEN Tail(ps)
    ELSE <<Head(ps)>> \o Del(Tail(ps), k)

\* d.update(other)
RECURSIVE Update(_, _)
Update(ps, other) ==
    IF other = <<>> THEN ps
    ELSE Update(Put(ps, Head(other)[1], Head(other)[2]), Tail(other))

(***************************************************************************)
(* json.dumps (defaults: ensure_ascii=True, separators ", " and ": ")      *)
(***************************************************************************)

\* "\uXXXX" for a code point below 65536
EscapeU(c) ==
    <<92, 117, HexDigit(c \div 4096), HexDigit((c \div 256) % 16),
      HexDigit((c \div 16) % 16), HexDigit(c % 16)>>

\* an encoder that escapes nothing
EscapeNothing(c) == <<c>>

\* json.encoder.py_encode_basestring_ascii, one character

EscapeChar(c) ==
    IF c = 34 THEN <<92, 34>>
    ELSE IF c = 92 THEN <<92, 92>>
    ELSE IF c = 8 THEN <<92, 98>>
    ELSE IF c = 12 THEN <<92, 102>>
    ELSE IF c = 10 THEN <<92, 110>>
    ELSE IF c = 13 THEN <<92, 114>>
    ELSE IF c = 9 THEN <<92, 116>>
    ELSE IF c \in 32..126 THEN <<c>>
    ELSE IF c < 65536 THEN EscapeU(c)
    ELSE EscapeU(55296 + (((c - 65536) \div 1024) % 1024))
         \o EscapeU(56320 + ((c - 65536) % 1024))

\* json.encoder.ESCAPE_ASCII: what py_encode_basestring_ascii does not replace
Unescaped == (32..126) \ {34, 92}

RECURSIVE EscapeFrom(_, _)
EscapeFrom(s, i) ==
    LET j == FirstOutside(s, i, Unescaped) IN
    IF j > Len(s) THEN Slice(s, i, Len(s))
    ELSE Slice(s, i, j - 1) \o EscapeChar(s[j]) \o EscapeFrom(s, j + 1)

EscapeText(s) == EscapeFrom(s, 1)

DumpsStr(s) == <<34>> \o EscapeText(s) \o <<34>>

RECURSIVE Decimal(_)
Decimal(n) == IF n < 10 THEN <<48 + n>> ELSE Decimal(n \div 10) \o <<48 + (n % 10)>>

RECURSIVE Dumps(_)
RECURSIVE DumpsItems(_)
RECURSIVE DumpsPairs(_)
DumpsItems(xs) ==
    IF xs = <<>> THEN <<>>
    ELSE Dumps(Head(xs)) \o (IF Len(xs) > 1 THEN <<44, 32>> ELSE <<>>)
         \o DumpsItems(Tail(xs))
DumpsPairs(ps) ==
    IF ps = <<>> THEN <<>>
    ELSE DumpsStr(Head(ps)[1]) \o <<58, 32>> \o Dumps(Head(ps)[2])
         \o (IF Len(ps) > 1 THEN <<44, 32>> ELSE <<>>) \o DumpsPairs(Tail(ps))
\* json.dumps(obj): the text, as code points (all of them ASCII)
Dumps(x) ==
    IF x.t = "str" THEN DumpsStr(x.v)
    ELSE IF x.t = "int" THEN Decimal(x.v)
    ELSE IF x.t = "list" THEN <<91>> \o DumpsItems(x.v) \o <<93>>
    ELSE IF x.t = "dict" THEN <<123>> \o DumpsPairs(x.v) \o <<125>>
    ELSE IF x.t = "bool" THEN
        (IF x.v THEN <<116, 114, 117, 101>> ELSE <<102, 97, 108, 115, 101>>)
    ELSE <<110, 117, 108, 108>>

(***************************************************************************)
(* json.loads.  Positions are 1-based; a scan returns                      *)
(* [ok, v, end]: the value and the position after it.  Floats, negative    *)
(* numbers, NaN and Infinity are outside the modelled subset of JSON (no   *)
(* input of the model holds one) and scan as errors.  A value computed     *)
(* once and used several times is handed on as a parameter.                *)
(***************************************************************************)

ScanFail == [ok |-> FALSE, v |-> PyNone, end |-> 0]
ScanOk(val, e) == [ok |-> TRUE, v |-> val, end |-> e]

\* json.decoder.WHITESPACE's characters
Whitespace == {32, 9, 10, 13}

\* json.decoder.WHITESPACE: the first position at or after i that holds no
\* space, tab, newline or carriage return
SkipWs(s, i) == FirstOutside(s, i, Whitespace)

\* the four hex digits at s[i..i+3], or -1
Hex4(s, i) ==
    IF i + 3 <= Len(s) /\ \A k \in 0..3 : HexVal(s[i + k]) >= 0
    THEN HexVal(s[i]) * 4096 + HexVal(s[i + 1]) * 256
         + HexVal(s[i + 2]) * 16 + HexVal(s[i + 3])
    ELSE -1

\* json.decoder.STRINGCHUNK: a chunk ends at a quote, a backslash or a control
\* character
ChunkEnds == (0..31) \cup {34, 92}

\* json.decoder.BACKSLASH: the character a one-letter escape stands for, or -1
Backslash(e) ==
    IF e = 34 \/ e = 92 \/ e = 47 THEN e
    ELSE IF e = 98 THEN 8
    ELSE IF e = 102 THEN 12
    ELSE IF e = 110 THEN 10
    ELSE IF e = 114 THEN 13
    ELSE IF e = 116 THEN 9
    ELSE -1

RECURSIVE ScanString(_, _, _)

\* a high surrogate at i (uni) followed by the escape uni2: a pair is one character
ScanPair(s, i, acc, uni, uni2) ==
    IF uni2 < 0 THEN ScanFail
    ELSE IF uni2 \in 56320..57343
    THEN ScanString(s, i + 12, Append(acc, 65536 + (uni - 55296) * 1024 + (uni2 - 56320)))
    ELSE ScanString(s, i + 6, Append(acc, uni))

\* the \uXXXX escape at i, uni its value
ScanUnicode(s, i, acc, uni) ==
    IF uni < 0 THEN ScanFail
    ELSE IF uni \in 55296..56319 /\ i + 7 <= Len(s) /\ s[i + 6] = 92 /\ s[i + 7] = 117
    THEN ScanPair(s, i, acc, uni, Hex4(s, i + 8))
    ELSE ScanString(s, i + 6, Append(acc, uni))

\* the backslash at i
ScanEscape(s, i, acc) ==
    IF i + 1 > Len(s) THEN ScanFail
    ELSE IF s[i + 1] = 117 THEN ScanUnicode(s, i, acc, Hex4(s, i + 2))
    ELSE IF Backslash(s[i + 1]) < 0 THEN ScanFail
    ELSE ScanString(s, i + 2, Append(acc, Backslash(s[i + 1])))

\* the chunk i0..i-1 and its terminator at i
ScanChunk(s, i0, acc0, i) ==
    IF i > Len(s) THEN ScanFail
    ELSE IF s[i] = 34 THEN ScanOk(acc0 \o Slice(s, i0, i - 1), i + 1)
    ELSE IF s[i] < 32 THEN ScanFail
    ELSE ScanEscape(s, i, acc0 \o Slice(s, i0, i - 1))

\* json.decoder.scanstring (strict), from the position after the opening quote
ScanString(s, i0, acc0) == ScanChunk(s, i0, acc0, FirstInside(s, i0, ChunkEnds))

\* the digits of json.decoder.NUMBER_RE's integer part
RECURSIVE ScanDigits(_, _, _)
ScanDigits(s, i, n) ==
    IF i <= Len(s) /\ s[i] \in 48..57 THEN ScanDigits(s, i + 1, n * 10 + (s[i] - 48))
    ELSE ScanOk(PyInt(n), i)

\* a fraction or an exponent after the integer part makes a float
NotFloat(s, r) == IF r.end <= Len(s) /\ s[r.end] \in {46, 101, 69} THEN ScanFail ELSE r

ScanNumber(s, i) ==
    NotFloat(s, IF s[i] = 48 THEN ScanOk(PyInt(0), i + 1) ELSE ScanDigits(s, i, 0))

IsAt(s, i, word) == i + Len(word) - 1 <= Len(s) /\ SubSeq(s, i, i + Len(word) - 1) = word

\* a scanned string as a value
AsStr(r) == IF r.ok THEN ScanOk(PyStr(r.v), r.end) ELSE ScanFail

RECURSIVE ScanValue(_, _)
RECURSIVE ScanMembers(_, _, _)
RECURSIVE ScanItems(_, _, _)

\* after a member: "}" ends the object, "," and a quote start the next key
NextMember(s, pairs, j) ==
    IF j > Len(s) THEN ScanFail
    ELSE IF s[j] = 125 THEN ScanOk(PyDict(pairs), j + 1)
    ELSE IF s[j] # 44 \/ SkipWs(s, j + 1) > Len(s) \/ s[SkipWs(s, j + 1)] # 34 THEN ScanFail
    ELSE ScanMembers(s, SkipWs(s, j + 1) + 1, pairs)

\* a member's value: a later value of a key replaces the earlier one
AfterValue(s, pairs, key, val) ==
    IF ~val.ok THEN ScanFail
    ELSE NextMember(s, Put(pairs, key, val.v), SkipWs(s, val.end))

\* the colon at j after a key
AfterColon(s, pairs, key, j) ==
    IF j > Len(s) \/ s[j] # 58 THEN ScanFail
    ELSE AfterValue(s, pairs, key, ScanValue(s, SkipWs(s, j + 1)))

AfterKey(s, pairs, k) ==
    IF ~k.ok THEN ScanFail ELSE AfterColon(s, pairs, k.v, SkipWs(s, k.end))

\* json.decoder.JSONObject, from the position after the opening quote of a key
ScanMembers(s, i, pairs) == AfterKey(s, pairs, ScanString(s, i, <<>>))

\* the first non-blank position j after the brace
ObjectAt(s, j) ==
    IF j > Len(s) THEN ScanFail
    ELSE IF s[j] = 125 THEN ScanOk(PyDict(<<>>), j + 1)
    ELSE IF s[j] # 34 THEN ScanFail
    ELSE ScanMembers(s, j + 1, <<>>)

\* json.decoder.JSONObject, from the position after the brace
ScanObject(s, i) == ObjectAt(s, SkipWs(s, i))

\* after an item: "]" ends the array, "," starts the next item
NextItem(s, items, j) ==
    IF j > Len(s) THEN ScanFail
    ELSE IF s[j] = 93 THEN ScanOk(PyList(items), j + 1)
    ELSE IF s[j] # 44 THEN ScanFail
    ELSE ScanItems(s, SkipWs(s, j + 1), items)

AfterItem(s, items, val) ==
    IF ~val.ok THEN ScanFail ELSE NextItem(s, Append(items, val.v), SkipWs(s, val.end))

\* json.decoder.JSONArray, from the position of an item
ScanItems(s, i, items) == AfterItem(s, items, ScanValue(s, i))

ArrayAt(s, j) ==
    IF j <= Len(s) /\ s[j] = 93 THEN ScanOk(PyList(<<>>), j + 1)
    ELSE ScanItems(s, j, <<>>)

\* json.decoder.JSONArray, from the position after the bracket
ScanArray(s, i) == ArrayAt(s, SkipWs(s, i))

\* json.scanner.py_make_scanner's _scan_once
ScanValue(s, i) ==
    IF i > Len(s) THEN ScanFail
    ELSE IF s[i] = 34 THEN AsStr(ScanString(s, i + 1, <<>>))
    ELSE IF s[i] = 123 THEN ScanObject(s, i + 1)
    ELSE IF s[i] = 91 THEN ScanArray(s, i + 1)
    ELSE IF s[i] \in 48..57 THEN ScanNumber(s, i)
    ELSE IF IsAt(s, i, <<110, 117, 108, 108>>) THEN ScanOk(PyNone, i + 4)
    ELSE IF IsAt(s, i, <<116, 114, 117, 101>>) THEN ScanOk(PyBool(TRUE), i + 4)
    ELSE IF IsAt(s, i, <<102, 97, 108, 115, 101>>) THEN ScanOk(PyBool(FALSE), i + 5)
    ELSE ScanFail

LoadsFail(e) == [ok |-> FALSE, v |-> PyNone, err |-> e]

\* JSONDecoder.decode: whitespace may follow the value, nothing else
LoadsEnd(s, r) ==
    IF r.ok /\ SkipWs(s, r.end) = Len(s) + 1
    THEN [ok |-> TRUE, v |-> r.v, err |-> ""]
    ELSE LoadsFail("JSONDecodeError")

LoadsText(u) ==
    IF ~u.ok THEN LoadsFail("UnicodeDecodeError")
    ELSE LoadsEnd(u.v, ScanValue(u.v, SkipWs(u.v, 1)))

\* json.loads(bytes): [ok, v, err]; the bytes are decoded as UTF-8 (no input
\* of the model starts with a byte-order mark or a NUL byte)
Loads(bs) == LoadsText(Utf8Decode(bs))

(***************************************************************************)
(* struct, hashlib, base64, os.path                                        *)
(***************************************************************************)

\* the k low-order bytes of n, least significant first
RECURSIVE LowBytes(_, _)
LowBytes(n, k) == IF k = 0 THEN <<>> ELSE <<n % 256>> \o LowBytes(n \div 256, k - 1)

Reverse(s) == [i \in 1..Len(s) |-> s[Len(s) + 1 - i]]

\* struct.pack('Q', n): 8 bytes in the byte order of the host ("little" or "big")
PackQ(n, order) == IF order = "little" THEN LowBytes(n, 8) ELSE Reverse(LowBytes(n, 8))

\* struct.unpack('Q', bs)[0] for 8 bytes, in the byte order of the host.  The
\* value is n when it is below 2^24; big says it is 2^24 or more (n is then void)
UnpackQ(bs, order) ==
    LET le == IF order = "little" THEN bs ELSE Reverse(bs) IN
    IF \E i \in 4..8 : le[i] # 0 THEN [big |-> TRUE, n |-> 0]
    ELSE [big |-> FALSE, n |-> le[1] + 256 * le[2] + 65536 * le[3]]

\* hashlib.sha256(data).digest(), abstracted: a two-byte checksum of all the
\* bytes in order stands for the 32-byte digest
RECURSIVE Sha256From(_, _, _)
Sha256From(data, i, h) ==
    IF i > Len(data) THEN <<h \div 256, h % 256>>
    ELSE Sha256From(data, i + 1, (h * 31 + data[i] + 1) % 65536)

Sha256(data) == Sha256From(data, 1, 7)

\* hashlib's hexdigest(): lowercase hexadecimal text
HexDigest(data) == HexOfBytes(Sha256(data))

\* one character of the base64 alphabet
B64Char(n) ==
    IF n < 26 THEN 65 + n
    ELSE IF n < 52 THEN 71 + n
    ELSE IF n < 62 THEN n - 4
    ELSE IF n = 62 THEN 43
    ELSE 47

\* base64.b64encode: three bytes to four characters, "=" padding at the end
RECURSIVE B64Encode(_)
B64Encode(bs) ==
    IF bs = <<>> THEN <<>>
    ELSE IF Len(bs) = 1 THEN
        <<B64Char(bs[1] \div 4), B64Char((bs[1] % 4) * 16), 61, 61>>
    ELSE IF Len(bs) = 2 THEN
        <<B64Char(bs[1] \div 4), B64Char((bs[1] % 4) * 16 + bs[2] \div 16),
          B64Char((bs[2] % 16) * 4), 61>>
    ELSE <<B64Char(bs[1] \div 4), B64Char((bs[1] % 4) * 16 + bs[2] \div 16),
           B64Char((bs[2] % 16) * 4 + bs[3] \div 64), B64Char(bs[3] % 64)>>
         \o B64Encode(SubSeq(bs, 4, Len(bs)))

\* str.rfind of one character: its last position, 0 if there is none
LastIndex(s, c) ==
    LET J == {j \in 1..Len(s) : s[j] = c}
    IN  IF J = {} THEN 0 ELSE CHOOSE j \in J : \A k \in J : k <= j

\* os.path.splitext(p)[1] (posixpath): from the last dot of the last path
\* component on, unless only dots precede it there
SplitExt(p) ==
    LET sepIndex == LastIndex(p, 47)
        dotIndex == LastIndex(p, 46)
    IN  IF dotIndex > sepIndex /\ \E j \in (sepIndex + 1)..(dotIndex - 1) : p[j] # 46
        THEN SubSeq(p, dotIndex, Len(p))
        ELSE <<>>

(***************************************************************************)
(* The scripts' literals                                                   *)
(***************************************************************************)

\* "__metadata__"
MetadataKey ==
    <<95, 95, 109, 101, 116, 97, 100, 97, 116, 97, 95, 95>>

\* "modelspec."
ModelspecPrefix ==
    <<109, 111, 100, 101, 108, 115, 112, 101, 99, 46>>

\* "modelspec.hash_sha256"
HashKey ==
    <<109, 111, 100, 101, 108, 115, 112, 101, 99, 46, 104, 97, 115, 104, 95,
      115, 104, 97, 50, 53, 54>>

\* "modelspec.thumbnail"
ThumbnailKey ==
    <<109, 111, 100, 101, 108, 115, 112, 101, 99, 46, 116, 104, 117, 109, 98,
      110, 97, 105, 108>>

\* "data:image/"
DataImage ==
    <<100, 97, 116, 97, 58, 105, 109, 97, 103, 101, 47>>

\* ";base64,"
Base64Comma ==
    <<59, 98, 97, 115, 101, 54, 52, 44>>

\* "0x"
ZeroX ==
    <<48, 120>>

\* "..."
Ellipsis ==
    <<46, 46, 46>>

\* "../images/example.jpg"
ExampleImagePath ==
    <<46, 46, 47, 105, 109, 97, 103, 101, 115, 47, 101, 120, 97, 109, 112,
      108, 101, 46, 106, 112, 103>>

\* the metadata example of the scripts
ExampleMetadata ==
    <<
      \* "modelspec.sai_model_spec": "1.0.0"
      <<
        <<109, 111, 100, 101, 108, 115, 112, 101, 99, 46, 115, 97, 105, 95,
          109, 111, 100, 101, 108, 95, 115, 112, 101, 99>>,
       PyStr(
        <<49, 46, 48, 46, 48>>)>>,
      \* "modelspec.architecture": "stable-diffusion-xl-v1-base"
      <<
        <<109, 111, 100, 101, 108, 115, 112, 101, 99, 46, 97, 114, 99, 104,
          105, 116, 101, 99, 116, 117, 114, 101>>,
       PyStr(
        <<115, 116, 97, 98, 108, 101, 45, 100, 105, 102, 102, 117, 115, 105,
          111, 110, 45, 120, 108, 45, 118, 49, 45, 98, 97, 115, 101>>)>>,
      \* "modelspec.title": "Example Model Version 1.0"
      <<
        <<109, 111, 100, 101, 108, 115, 112, 101, 99, 46, 116, 105, 116, 108,
          101>>,
       PyStr(
        <<69, 120, 97, 109, 112, 108, 101, 32, 77, 111, 100, 101, 108, 32,
          86, 101, 114, 115, 105, 111, 110, 32, 49, 46, 48>>)>>,
      \* "modelspec.author": "Example Corp"
      <<
        <<109, 111, 100, 101, 108, 115, 112, 101, 99, 46, 97, 117, 116, 104,
          111, 114>>,
       PyStr(
        <<69, 120, 97, 109, 112, 108, 101, 32, 67, 111, 114, 112>>)>>,
      \* "modelspec.description": "This is my example model to show you how to do it!"
      <<
        <<109, 111, 100, 101, 108, 115, 112, 101, 99, 46, 100, 101, 115, 99,
          114, 105, 112, 116, 105, 111, 110>>,
       PyStr(
        <<84, 104, 105, 115, 32, 105, 115, 32, 109, 121, 32, 101, 120, 97,
          109, 112, 108, 101, 32, 109, 111, 100, 101, 108, 32, 116, 111, 32,
          115, 104, 111, 119, 32, 121, 111, 117, 32, 104, 111, 119, 32, 116,
          111, 32, 100, 111, 32, 105, 116, 33>>)>>,
      \* "modelspec.date": "2023-07-20"
      <<
        <<109, 111, 100, 101, 108, 115, 112, 101, 99, 46, 100, 97, 116,
          101>>,
       PyStr(
        <<50, 48, 50, 51, 45, 48, 55, 45, 50, 48>>)>>,
      \* "modelspec.license": "ExampleLicense-1.0"
      <<
        <<109, 111, 100, 101, 108, 115, 112, 101, 99, 46, 108, 105, 99, 101,
          110, 115, 101>>,
       PyStr(
        <<69, 120, 97, 109, 112, 108, 101, 76, 105, 99, 101, 110, 115, 101,
          45, 49, 46, 48>>)>>,
      \* "modelspec.usage_hint": "Use keyword 'example'"
      <<
        <<109, 111, 100, 101, 108, 115, 112, 101, 99, 46, 117, 115, 97, 103,
          101, 95, 104, 105, 110, 116>>,
       PyStr(
        <<85, 115, 101, 32, 107, 101, 121, 119, 111, 114, 100, 32, 39, 101,
          120, 97, 109, 112, 108, 101, 39>>)>>
    >>

(***************************************************************************)
(* The safetensors library, as example_hf_safetensors.py uses it, and as   *)
(* the writer of the files the scripts are given                           *)
(***************************************************************************)

\* "data_offsets", "dtype", "shape", "U8": a tensor entry of a header
DataOffsetsKey == <<100, 97, 116, 97, 95, 111, 102, 102, 115, 101, 116, 115>>
DtypeKey == <<100, 116, 121, 112, 101>>
ShapeKey == <<115, 104, 97, 112, 101>>
U8 == <<85, 56>>

\* what the library's JSON writer escapes: quote, backslash, control characters
RawEscaped == (0..31) \cup {34, 92}

RECURSIVE RawEscapeFrom(_, _)
RawEscapeFrom(s, i) ==
    LET j == FirstInside(s, i, RawEscaped) IN
    IF j > Len(s) THEN Slice(s, i, Len(s))
    ELSE Slice(s, i, j - 1) \o EscapeChar(s[j]) \o RawEscapeFrom(s, j + 1)

RECURSIVE RawDumps(_)
RECURSIVE RawDumpsItems(_)
RECURSIVE RawDumpsPairs(_)
RawDumpsItems(xs) ==
    IF xs = <<>> THEN <<>>
    ELSE RawDumps(Head(xs)) \o (IF Len(xs) > 1 THEN <<44>> ELSE <<>>)
         \o RawDumpsItems(Tail(xs))
RawDumpsPairs(ps) ==
    IF ps = <<>> THEN <<>>
    ELSE <<34>> \o RawEscapeFrom(Head(ps)[1], 1) \o <<34, 58>> \o RawDumps(Head(ps)[2])
         \o (IF Len(ps) > 1 THEN <<44>> ELSE <<>>) \o RawDumpsPairs(Tail(ps))
\* the library's header text: compact, characters outside ASCII left as they are
RawDumps(x) ==
    IF x.t = "str" THEN <<34>> \o RawEscapeFrom(x.v, 1) \o <<34>>
    ELSE IF x.t = "int" THEN Decimal(x.v)
    ELSE IF x.t = "list" THEN <<91>> \o RawDumpsItems(x.v) \o <<93>>
    ELSE IF x.t = "dict" THEN <<123>> \o RawDumpsPairs(x.v) \o <<125>>
    ELSE IF x.t = "bool" THEN
        (IF x.v THEN <<116, 114, 117, 101>> ELSE <<102, 97, 108, 115, 101>>)
    ELSE <<110, 117, 108, 108>>

\* the largest end offset the tensor entries of a header name: the length the
\* library requires of the body
RECURSIVE TensorBytes(_)
TensorBytes(ps) ==
    IF ps = <<>> THEN 0
    ELSE LET rest == TensorBytes(Tail(ps))
             d    == Head(ps)[2]
             e    == IF Head(ps)[1] # MetadataKey /\ d.t = "dict"
                        /\ HasKey(d.v, DataOffsetsKey)
                     THEN Get(d.v, DataOffsetsKey).v[2].v
                     ELSE 0
         IN  IF e > rest THEN e ELSE rest

\* safe_open(file_name_in, ...): the library reads the prefix little-endian on
\* every host and refuses a file that is not a whole container.
\* [ok, metadata, tensors, body, err]; metadata is None when the header has no
\* "__metadata__" entry
SafeOpen(file) ==
    LET bad(e) == [ok |-> FALSE, metadata |-> PyNone, tensors |-> <<>>,
                   body |-> <<>>, err |-> e]
    IN
    IF Len(file) < 8 THEN bad("HeaderTooSmall")
    ELSE LET n == UnpackQ(SubSeq(file, 1, 8), "little") IN
    IF n.big \/ n.n > Len(file) - 8 THEN bad("InvalidHeaderLength")
    ELSE LET r    == Loads(Slice(file, 9, 8 + n.n))
             body == Slice(file, 9 + n.n, Len(file))
         IN
    IF ~r.ok \/ r.v.t # "dict" THEN bad("InvalidHeaderDeserialization")
    ELSE IF TensorBytes(r.v.v) # Len(body) THEN bad("MetadataIncompleteBuffer")
    ELSE [ok |-> TRUE,
          metadata |-> IF HasKey(r.v.v, MetadataKey) THEN Get(r.v.v, MetadataKey)
                       ELSE PyNone,
          tensors |-> Del(r.v.v, MetadataKey),
          body |-> body, err |-> ""]

\* save_file(tensors, file_name_out, metadata=...): the bytes of the container
\* the library writes (the metadata entry first, little-endian prefix).  The
\* spaces newer versions of the library add after the text, up to a multiple
\* of 8 bytes, are left out: json.loads skips them
SaveFile(tensors, body, meta) ==
    LET hdr  == IF meta.t = "none" THEN tensors
                ELSE << <<MetadataKey, meta>> >> \o tensors
        text == Utf8Encode(RawDumps(PyDict(hdr)))
    IN  PackQ(Len(text), "little") \o text \o body

(***************************************************************************)
(* Inputs: the files the scripts are run on, the metadata and the image    *)
(* the user configures                                                     *)
(***************************************************************************)

\* the longest body of an input file
MaxBodyLen == 1

\* by how many bytes the prefix of an input file may overstate its header
MaxOver == 1

Min(a, b) == IF a < b THEN a ELSE b

\* body bytes: "A" and a space
BodyBytes == {65, 32}

RECURSIVE SeqsUpTo(_, _)
SeqsUpTo(S, n) ==
    IF n = 0 THEN {<<>>}
    ELSE LET shorter == SeqsUpTo(S, n - 1)
         IN  shorter \cup {Append(x, b) : x \in {y \in shorter : Len(y) = n - 1}, b \in S}

Bodies == SeqsUpTo(BodyBytes, MaxBodyLen)

\* the header entries of the tensors in a body: one tensor "w" of U8 over the
\* whole body, none for an empty body
TensorsOf(body) ==
    IF body = <<>> THEN <<>>
    ELSE << <<  <<119>>,
               PyDict(<< <<DtypeKey, PyStr(U8)>>,
                          <<ShapeKey, PyList(<<PyInt(Len(body))>>)>>,
                          <<DataOffsetsKey, PyList(<<PyInt(0), PyInt(Len(body))>>)>> >>) >> >>

\* "k": "v", "modelspec.title": "old", "modelspec.old": "x"
MixedMetadata ==
    << <<  <<107>>, PyStr(<<118>>) >>,
       <<  <<109, 111, 100, 101, 108, 115, 112, 101, 99, 46, 116, 105, 116, 108, 101>>, PyStr(<<111, 108, 100>>) >>,
       <<  <<109, 111, 100, 101, 108, 115, 112, 101, 99, 46, 111, 108, 100>>, PyStr(<<120>>) >> >>

\* keys and values outside ASCII, with quotes and backslashes, and keys that
\* nearly have the prefix:
\* "e-acute": "euro-sign, quote, backslash", "modelspec": "n", "Modelspec.x": "y",
\* "modelspec.e-acute": "emoji"
UnicodeMetadata ==
    << <<  <<233>>, PyStr(<<8364, 34, 92>>) >>,
       <<  <<109, 111, 100, 101, 108, 115, 112, 101, 99>>, PyStr(<<110>>) >>,
       <<  <<77, 111, 100, 101, 108, 115, 112, 101, 99, 46, 120>>, PyStr(<<121>>) >>,
       <<  ModelspecPrefix \o <<233>>, PyStr(<<128512>>) >> >>

\* the "__metadata__" maps of the input files over a body (None: no such entry);
\* the mixed map also with a stored hash, the right one and a wrong one
InMetadata(body) ==
    { PyNone, PyDict(<<>>), PyDict(MixedMetadata), PyDict(UnicodeMetadata),
      PyDict(Put(MixedMetadata, HashKey, PyStr(ZeroX \o HexDigest(body)))),
      PyDict(Put(MixedMetadata, HashKey, PyStr(ZeroX \o HexDigest(body \o <<66>>)))) }

\* the header texts of an input file, each a JSON object whose "__metadata__"
\* entry, if any, maps strings to strings: as the library writes it (metadata first,
\* compact, UTF-8) and, for the maps example_no_reqs.py can have left there (a
\* hash among the entries, or characters outside ASCII), as that script writes
\* it (metadata last, ASCII)
HeaderTexts(body) ==
    { Utf8Encode(RawDumps(PyDict(
          (IF m.t = "none" THEN <<>> ELSE << <<MetadataKey, m>> >>) \o TensorsOf(body))))
        : m \in InMetadata(body) }
    \cup
    { Utf8Encode(Dumps(PyDict(TensorsOf(body) \o << <<MetadataKey, m>> >>)))
        : m \in {x \in InMetadata(body) :
                    x.t = "dict" /\ (HasKey(x.v, HashKey) \/ HasKey(x.v, <<233>>))} }

\* the files made of one header text and one body
FilesOf(text, body) ==
    LET n     == Len(text)
        whole == PackQ(n, "little") \o text \o body
    IN  { whole,
          \* written on a big-endian host by example_no_reqs.py
          PackQ(n, "big") \o text \o body,
          \* cut inside the prefix
          SubSeq(whole, 1, 7),
          \* cut inside the header
          SubSeq(whole, 1, 8 + n - 1),
          \* the prefix says one byte less than the header has
          PackQ(n - 1, "little") \o text \o body,
          \* a header that is not UTF-8
          PackQ(n, "little") \o <<255>> \o Tail(text) \o body }
        \cup
        \* the prefix says more than the header has
        { PackQ(n + e, "little") \o text \o body : e \in 1..MaxOver }

InFiles ==
    UNION { UNION { FilesOf(text, body) : text \in HeaderTexts(body) } : body \in Bodies }

\* "modelspec.title": "e-acute", "k": "new": a value outside ASCII, and an
\* entry outside the namespace
StrayMetadata ==
    << <<  <<109, 111, 100, 101, 108, 115, 112, 101, 99, 46, 116, 105, 116, 108, 101>>,
           PyStr(<<233>>) >>,
       <<  <<107>>, PyStr(<<110, 101, 119>>) >> >>

\* the values the user gives the metadata dict of a script: the example's, and
\* one of the user's own
Metadatas == {ExampleMetadata, StrayMetadata}

\* the values of image_path, each with the PNG bytes the image saves as
Images ==
    { [path |-> <<>>, png |-> <<>>],
      [path |-> ExampleImagePath, png |-> <<137, 80, 78, 71>>] }

(***************************************************************************)
(* The scripts as a state machine.  script names the script that runs,     *)
(* byteorder the host's native byte order (sys.byteorder), in_file the     *)
(* bytes of file_name_in, out_file those of file_name_out once it has been *)
(* opened for writing (out_opened), img the PNG bytes the image at         *)
(* image_path saves as, log what the script prints about the metadata,     *)
(* err the exception that ended it.                                        *)
(***************************************************************************)

VARIABLES script, byteorder, in_file, image_path, img, metadata, pc, pos,
          head_len, header, content, tensors, orig_metadata, out_opened,
          out_file, log, err

vars == <<script, byteorder, in_file, image_path, img, metadata, pc, pos,
          head_len, header, content, tensors, orig_metadata, out_opened,
          out_file, log, err>>

Scripts == {"no_reqs", "hf_safetensors", "read_only"}

\* the longest value example_no_reqs.py and example_hf_safetensors.py print whole
PrintMax == 200

\* the longest data-URI value and the longest other value example_read_only.py
\* prints whole
DataMax == 200
TextMax == 800

\* key.startswith("modelspec.")
IsReserved(key) == StartsWith(key, ModelspecPrefix)

\* val[:max_len] + "..." if len(val) > max_len else val
Shorten(val, max_len) ==
    IF Len(val) > max_len THEN SubSeq(val, 1, max_len) \o Ellipsis ELSE val

\* f"data:image/{image_ext};base64,{convert_to_b64(img)}"
convert_to_b64(png) == Utf8Decode(B64Encode(png)).v

Thumbnail(path, png) ==
    DataImage \o SplitExt(path) \o Base64Comma \o convert_to_b64(png)

\* a hash object that is never fed: the digest of no bytes
EmptyHash(data) == ZeroX \o HexDigest(<<>>)

\* file_hash.update(content); f"0x{file_hash.hexdigest()}"
FileHash(data) == ZeroX \o HexDigest(data)

\* file_data.read(n) at position p: the bytes there are, at most n of them
FileRead(file, p, n) == Slice(file, p, Min(p + n - 1, Len(file)))

\* file_data.read() at position p: all the bytes left
FileReadAll(file, p) == Slice(file, p, Len(file))

\* the lines a script prints for the "modelspec." entries of a metadata map
RECURSIVE PrintReserved(_, _)
PrintReserved(ps, ro) ==
    IF ps = <<>> THEN <<>>
    ELSE LET key == Head(ps)[1]
             val == Head(ps)[2].v
             max_len == IF ~ro THEN PrintMax
                        ELSE IF key = ThumbnailKey \/ StartsWith(val, DataImage)
                        THEN DataMax ELSE TextMax
         IN  (IF IsReserved(key)
              THEN <<[kind |-> "entry", key |-> key, a |-> Shorten(val, max_len),
                      b |-> <<>>]>>
              ELSE <<>>)
             \o PrintReserved(Tail(ps), ro)

\* a loop that deletes a key only when it is the prefix itself
RECURSIVE DeleteExact(_)
DeleteExact(ps) ==
    IF ps = <<>> THEN <<>>
    ELSE (IF Head(ps)[1] = ModelspecPrefix THEN <<>> ELSE <<Head(ps)>>)
         \o DeleteExact(Tail(ps))

\* the for loop's "del orig_metadata[key]" for every key with the prefix
RECURSIVE DeleteReserved(_)
DeleteReserved(ps) ==
    IF ps = <<>> THEN <<>>
    ELSE (IF IsReserved(Head(ps)[1]) THEN <<>> ELSE <<Head(ps)>>)
         \o DeleteReserved(Tail(ps))

\* a hash check that prints the verdict alone
HashVerdict(stored, actual) ==
    [kind |-> IF stored = actual THEN "MATCH" ELSE "FAIL", key |-> HashKey,
     a |-> <<>>, b |-> <<>>]

\* the line the hash check prints: the stored and the computed value
HashLine(stored, actual) ==
    [kind |-> IF stored = actual THEN "MATCH" ELSE "FAIL", key |-> HashKey,
     a |-> stored, b |-> actual]

Init ==
    /\ script \in Scripts
    /\ byteorder \in {"little", "big"}
    /\ in_file \in InFiles
    /\ \E i \in Images :
          /\ image_path = (IF script = "read_only" THEN <<>> ELSE i.path)
          /\ img = (IF script = "read_only" THEN <<>> ELSE i.png)
    /\ \E m \in Metadatas : metadata = (IF script = "read_only" THEN <<>> ELSE m)
    /\ pc = IF script = "read_only" THEN "load" ELSE "start"
    /\ pos = 1
    /\ head_len = [big |-> FALSE, n |-> 0]
    /\ header = PyNone
    /\ content = <<>>
    /\ tensors = <<>>
    /\ orig_metadata = PyNone
    /\ out_opened = FALSE
    /\ out_file = <<>>
    /\ log = <<>>
    /\ err = ""

\* an exception ends the script
Raise(e) ==
    /\ pc' = "failed"
    /\ err' = e

\* example_no_reqs.py 41-46, example_hf_safetensors.py 46-51
LoadImage ==
    /\ pc = "start"
    /\ script \in {"no_reqs", "hf_safetensors"}
    /\ metadata' = IF image_path # <<>>
                   THEN Put(metadata, ThumbnailKey, PyStr(Thumbnail(image_path, img)))
                   ELSE metadata
    /\ pc' = "load"
    /\ UNCHANGED <<script, byteorder, in_file, image_path, img, pos, head_len, header,
                   content, tensors, orig_metadata, out_opened, out_file, log, err>>

\* head_len = struct.unpack('Q', file_data.read(8))
ReadPrefix ==
    /\ pc = "load"
    /\ script \in {"no_reqs", "read_only"}
    /\ LET data == FileRead(in_file, 1, 8) IN
       IF Len(data) # 8
       THEN /\ Raise("struct.error")
            /\ UNCHANGED <<pos, head_len>>
       ELSE /\ head_len' = UnpackQ(data, byteorder)
            /\ pos' = 9
            /\ pc' = "prefix"
            /\ err' = err
    /\ UNCHANGED <<script, byteorder, in_file, image_path, img, metadata, header,
                   content, tensors, orig_metadata, out_opened, out_file, log>>

\* a reader that takes a header it cannot parse for an empty one
ReadHeaderLenient ==
    /\ pc = "prefix"
    /\ IF head_len.big
       THEN /\ Raise("MemoryError")
            /\ UNCHANGED <<pos, header>>
       ELSE LET data == FileRead(in_file, pos, head_len.n)
                r    == Loads(data)
            IN  /\ header' = (IF r.ok THEN r.v ELSE PyDict(<<>>))
                /\ pos' = pos + Len(data)
                /\ pc' = "header"
                /\ err' = err
    /\ UNCHANGED <<script, byteorder, in_file, image_path, img, metadata, head_len,
                   content, tensors, orig_metadata, out_opened, out_file, log>>

\* header = json.loads(file_data.read(head_len[0])).  A length of 2^24 or more
\* is, in every input file, one of 2^56 or more: read() cannot allocate it
ReadHeader ==
    /\ pc = "prefix"
    /\ IF head_len.big
       THEN /\ Raise("MemoryError")
            /\ UNCHANGED <<pos, header>>
       ELSE LET data == FileRead(in_file, pos, head_len.n)
                r    == Loads(data)
            IN  IF ~r.ok
                THEN /\ Raise(r.err)
                     /\ UNCHANGED <<pos, header>>
                ELSE /\ header' = r.v
                     /\ pos' = pos + Len(data)
                     /\ pc' = "header"
                     /\ err' = err
    /\ UNCHANGED <<script, byteorder, in_file, image_path, img, metadata, head_len,
                   content, tensors, orig_metadata, out_opened, out_file, log>>

\* content = file_data.read(); metadata["modelspec.hash_sha256"] = ...
ReadContent ==
    /\ pc = "header"
    /\ script = "no_reqs"
    /\ content' = FileReadAll(in_file, pos)
    /\ metadata' = Put(metadata, HashKey, PyStr(FileHash(content')))
    /\ pos' = Len(in_file) + 1
    /\ pc' = "content"
    /\ UNCHANGED <<script, byteorder, in_file, image_path, img, head_len, header,
                   tensors, orig_metadata, out_opened, out_file, log, err>>

\* example_no_reqs.py 61-81: the hash check, the printing and the deletion of
\* the old entries.  orig_metadata is the very dict header holds, so the
\* deletion shows in header too
ReadMetadata ==
    /\ pc = "content"
    /\ script = "no_reqs"
    /\ IF ~HasKey(header.v, MetadataKey)
       THEN /\ orig_metadata' = PyDict(<<>>)
            /\ log' = <<>>
            /\ pc' = "read"
            /\ UNCHANGED <<header, err>>
       ELSE LET old == Get(header.v, MetadataKey).v
                kept == PyDict(DeleteReserved(old))
            IN  /\ log' = (IF HasKey(old, HashKey)
                           THEN <<HashLine(Get(old, HashKey).v, Get(metadata, HashKey).v)>>
                           ELSE <<>>)
                          \o PrintReserved(old, FALSE)
                /\ orig_metadata' = kept
                /\ header' = PyDict(Put(header.v, MetadataKey, kept))
                /\ pc' = "read"
                /\ err' = err
    /\ UNCHANGED <<script, byteorder, in_file, image_path, img, metadata, pos,
                   head_len, content, tensors, out_opened, out_file>>

\* orig_metadata.update(metadata); header["__metadata__"] = orig_metadata
ApplyMetadata ==
    /\ pc = "read"
    /\ script = "no_reqs"
    /\ orig_metadata' = PyDict(Update(orig_metadata.v, metadata))
    /\ header' = PyDict(Put(header.v, MetadataKey, orig_metadata'))
    /\ pc' = "merged"
    /\ UNCHANGED <<script, byteorder, in_file, image_path, img, metadata, pos,
                   head_len, content, tensors, out_opened, out_file, log, err>>

\* open(file_name_out, mode='wb'): the file exists from here on, and is empty
OpenOut ==
    /\ pc = "merged"
    /\ script = "no_reqs"
    /\ out_opened' = TRUE
    /\ out_file' = <<>>
    /\ pc' = "opened"
    /\ UNCHANGED <<script, byteorder, in_file, image_path, img, metadata, pos,
                   head_len, header, content, tensors, orig_metadata, log, err>>

\* struct.pack('Q', len(header)) + header.encode('utf-8') + content, where
\* header is the text json.dumps made and len counts its characters
Encode(text, body, order) == PackQ(Len(text), order) \o Utf8Encode(text) \o body

\* example_no_reqs.py 90-94
WriteOut ==
    /\ pc = "opened"
    /\ header' = PyStr(Dumps(header))
    /\ out_file' = Encode(header'.v, content, byteorder)
    /\ pc' = "done"
    /\ UNCHANGED <<script, byteorder, in_file, image_path, img, metadata, pos,
                   head_len, content, tensors, orig_metadata, out_opened, log, err>>

\* example_read_only.py 26-35
PrintMetadata ==
    /\ pc = "header"
    /\ script = "read_only"
    /\ log' = IF HasKey(header.v, MetadataKey)
              THEN PrintReserved(Get(header.v, MetadataKey).v, TRUE)
              ELSE <<>>
    /\ pc' = "done"
    /\ UNCHANGED err
    /\ UNCHANGED <<script, byteorder, in_file, image_path, img, metadata, pos,
                   head_len, header, content, tensors, orig_metadata, out_opened,
                   out_file>>

\* example_hf_safetensors.py 53-60
HfLoad ==
    /\ pc = "load"
    /\ script = "hf_safetensors"
    /\ LET f == SafeOpen(in_file) IN
       IF ~f.ok
       THEN /\ Raise(f.err)
            /\ UNCHANGED <<orig_metadata, tensors, content>>
       ELSE /\ orig_metadata' = f.metadata
            /\ tensors' = f.tensors
            /\ content' = f.body
            /\ pc' = "content"
            /\ err' = err
    /\ UNCHANGED <<script, byteorder, in_file, image_path, img, metadata, pos,
                   head_len, header, out_opened, out_file, log>>

\* example_hf_safetensors.py 63-69: None has no items()
HfReadMetadata ==
    /\ pc = "content"
    /\ script = "hf_safetensors"
    /\ IF orig_metadata.t # "dict"
       THEN /\ Raise("AttributeError")
            /\ UNCHANGED <<orig_metadata, log>>
       ELSE /\ log' = PrintReserved(orig_metadata.v, FALSE)
            /\ orig_metadata' = PyDict(DeleteReserved(orig_metadata.v))
            /\ pc' = "read"
            /\ err' = err
    /\ UNCHANGED <<script, byteorder, in_file, image_path, img, metadata, pos,
                   head_len, header, content, tensors, out_opened, out_file>>

\* example_hf_safetensors.py 72
HfApplyMetadata ==
    /\ pc = "read"
    /\ script = "hf_safetensors"
    /\ orig_metadata' = PyDict(Update(orig_metadata.v, metadata))
    /\ pc' = "merged"
    /\ UNCHANGED <<script, byteorder, in_file, image_path, img, metadata, pos,
                   head_len, header, content, tensors, out_opened, out_file, log, err>>

\* example_hf_safetensors.py 76
HfSave ==
    /\ pc = "merged"
    /\ script = "hf_safetensors"
    /\ out_opened' = TRUE
    /\ out_file' = SaveFile(tensors, content, orig_metadata)
    /\ pc' = "done"
    /\ UNCHANGED <<script, byteorder, in_file, image_path, img, metadata, pos,
                   head_len, header, content, tensors, orig_metadata, log, err>>

Next ==
    \/ LoadImage
    \/ ReadPrefix
    \/ ReadHeader
    \/ ReadContent
    \/ ReadMetadata
    \/ ApplyMetadata
    \/ OpenOut
    \/ WriteOut
    \/ PrintMetadata
    \/ HfLoad
    \/ HfReadMetadata
    \/ HfApplyMetadata
    \/ HfSave

Spec == Init /\ [][Next]_vars

(***************************************************************************)
(* Reading a container as a whole                                          *)
(***************************************************************************)

DecodeFail(e) == [ok |-> FALSE, header |-> PyNone, content |-> <<>>, err |-> e]

DecodeParsed(file, data, r) ==
    IF ~r.ok THEN DecodeFail(r.err)
    ELSE [ok |-> TRUE, header |-> r.v, content |-> FileReadAll(file, 9 + Len(data)),
          err |-> ""]

DecodeHeader(file, data) == DecodeParsed(file, data, Loads(data))

DecodeLength(file, n) ==
    IF n.big THEN DecodeFail("MemoryError")
    ELSE DecodeHeader(file, FileRead(file, 9, n.n))

\* example_no_reqs.py 52-56 on a file, on a host of the given byte order:
\* [ok, header, content, err]
Decode(file, order) ==
    IF Len(FileRead(file, 1, 8)) # 8 THEN DecodeFail("struct.error")
    ELSE DecodeLength(file, UnpackQ(FileRead(file, 1, 8), order))

\* header.get("__metadata__", {}) of a decoded container, as pairs
MetadataOf(d) ==
    IF d.ok /\ d.header.t = "dict" /\ HasKey(d.header.v, MetadataKey)
    THEN Get(d.header.v, MetadataKey).v
    ELSE <<>>

\* whether the script that runs can read the file, and the metadata map it
\* finds in it (empty when the header has none)
WritePath == script \in {"no_reqs", "hf_safetensors"}

Readable(file) ==
    IF script = "hf_safetensors" THEN SafeOpen(file).ok ELSE Decode(file, byteorder).ok

HasMetadata(file) ==
    IF script = "hf_safetensors" THEN SafeOpen(file).metadata.t = "dict"
    ELSE LET d == Decode(file, byteorder)
         IN  d.ok /\ d.header.t = "dict" /\ HasKey(d.header.v, MetadataKey)

MetadataIn(file) ==
    IF script = "hf_safetensors"
    THEN (IF SafeOpen(file).metadata.t = "dict" THEN SafeOpen(file).metadata.v ELSE <<>>)
    ELSE MetadataOf(Decode(file, byteorder))

ReservedOf(ps) == {ps[i] : i \in {j \in 1..Len(ps) : IsReserved(ps[j][1])}}
ForeignOf(ps)  == {ps[i] : i \in {j \in 1..Len(ps) : ~IsReserved(ps[j][1])}}

\* every key of the caller's metadata has the prefix
AllReserved(ps) == \A i \in 1..Len(ps) : IsReserved(ps[i][1])

(***************************************************************************)
(* Claims                                                                  *)
(***************************************************************************)

\* C1: when a write completes with new entries R (all of them reserved), the
\* reserved entries of the written container's metadata map are exactly R, and
\* its foreign entries are exactly the input's foreign entries, key for key and
\* value for value.
C1_ReservedNamespaceReplaced ==
    (pc = "done" /\ WritePath /\ AllReserved(metadata)) =>
        /\ Readable(out_file)
        /\ ReservedOf(MetadataIn(out_file)) = Range(metadata)
        /\ ForeignOf(MetadataIn(out_file)) = ForeignOf(MetadataIn(in_file))
        /\ Len(MetadataIn(out_file))
             = Cardinality(Range(metadata)) + Cardinality(ForeignOf(MetadataIn(in_file)))

\* a completed write whose input held foreign entries and a reserved entry that
\* is not among the new ones
C1_Witness ==
    /\ pc = "done" /\ WritePath /\ AllReserved(metadata)
    /\ ForeignOf(MetadataIn(in_file)) # {}
    /\ \E e \in ReservedOf(MetadataIn(in_file)) : ~HasKey(metadata, e[1])

\* C2: the first 8 bytes of a container example_no_reqs.py has written are the
\* little-endian 64-bit byte length L of the UTF-8 header text, the text
\* follows, and the body starts at offset 8 + L.
C2_LittleEndianByteLength ==
    (pc = "done" /\ script = "no_reqs") =>
        LET text == Utf8Encode(header.v) IN
        /\ Len(out_file) = 8 + Len(text) + Len(content)
        /\ SubSeq(out_file, 1, 8) = PackQ(Len(text), "little")
        /\ SubSeq(out_file, 9, 8 + Len(text)) = text
        /\ Slice(out_file, 9 + Len(text), Len(out_file)) = content

\* C3: decoding what WriteOut encodes yields the header that was encoded, with
\* the same keys and values, and the same body.
C3_RoundTrip ==
    [][pc = "opened" =>
          LET d == Decode(out_file', byteorder) IN
          /\ d.ok
          /\ d.header = header
          /\ d.content = content]_vars

\* a written container whose header text holds escapes and whose body is not empty
C3_Witness ==
    /\ pc = "done" /\ script = "no_reqs"
    /\ 92 \in Range(header.v)
    /\ content # <<>>

\* C4: the hash entry of a container example_no_reqs.py has written is "0x" and
\* the lowercase hex digest of the body of that container, whatever the input
\* stored; reading the container back, the check prints MATCH.
C4_WrittenHashIsOfBody ==
    (pc = "done" /\ script = "no_reqs") =>
        LET d == Decode(out_file, byteorder)
            m == MetadataOf(d)
        IN  /\ d.ok
            /\ d.content = content
            /\ HasKey(m, HashKey)
            /\ Get(m, HashKey) = PyStr(ZeroX \o HexDigest(d.content))
            /\ \A i \in 3..Len(Get(m, HashKey).v) :
                   Get(m, HashKey).v[i] \in (48..57) \cup (97..102)
            /\ HashLine(Get(m, HashKey).v, ZeroX \o HexDigest(d.content)).kind = "MATCH"

\* a completed write whose input stored a hash that is not the body's
C4_Witness ==
    /\ pc = "done" /\ script = "no_reqs"
    /\ HasKey(MetadataIn(in_file), HashKey)
    /\ Get(MetadataIn(in_file), HashKey) # PyStr(ZeroX \o HexDigest(content))

\* the keys of the printed entries, in order
EntryKeys(lines) == [i \in 1..Len(lines) |-> lines[i].key]

\* the reserved keys of a metadata map, in order
RECURSIVE ReservedKeys(_)
ReservedKeys(ps) ==
    IF ps = <<>> THEN <<>>
    ELSE (IF IsReserved(Head(ps)[1]) THEN <<Head(ps)[1]>> ELSE <<>>)
         \o ReservedKeys(Tail(ps))

\* C5: once example_no_reqs.py has read the metadata of an input whose stored
\* hash is not the digest of its body, it has printed a FAIL line with the
\* stored and the computed value and then every reserved entry, and it has not
\* raised; with no stored hash it prints no hash line, and does not raise either.
C5_MismatchIsReported ==
    /\ (script = "no_reqs" /\ pc \in {"read", "merged", "opened", "done"}
          /\ HasMetadata(in_file)) =>
          LET m      == MetadataIn(in_file)
              actual == ZeroX \o HexDigest(content)
          IN  IF HasKey(m, HashKey)
              THEN /\ log # <<>>
                   /\ log[1] = [kind |-> IF Get(m, HashKey).v = actual
                                         THEN "MATCH" ELSE "FAIL",
                                key |-> HashKey, a |-> Get(m, HashKey).v, b |-> actual]
                   /\ EntryKeys(Tail(log)) = ReservedKeys(m)
              ELSE /\ \A i \in 1..Len(log) : log[i].kind = "entry"
                   /\ EntryKeys(log) = ReservedKeys(m)
    /\ (script = "no_reqs" /\ pc = "failed") => ~Readable(in_file)

\* the metadata of an input with a wrong stored hash has been read
C5_Witness ==
    /\ script = "no_reqs" /\ pc = "done"
    /\ log # <<>>
    /\ log[1].kind = "FAIL"
    /\ Len(log) > 1

\* the prefix of a file says more bytes follow than there are, or is not whole
Truncated(file, order) ==
    \/ Len(file) < 8
    \/ UnpackQ(SubSeq(file, 1, 8), order).big
    \/ UnpackQ(SubSeq(file, 1, 8), order).n > Len(file) - 8

\* C6: example_no_reqs.py and example_read_only.py get no header out of an
\* input with fewer than 8 bytes or with fewer bytes after the prefix than the
\* prefix says: they fail.
C6_TruncatedInputFails ==
    (script \in {"no_reqs", "read_only"} /\ Truncated(in_file, byteorder)) =>
        /\ header.t = "none"
        /\ pc \in {"start", "load", "prefix", "failed"}

\* C7: a script whose input decodes and has no "__metadata__" entry does not
\* fail, and a write then stores exactly the new entries.
C7_AbsentMetadataNeverFails ==
    (pc \in {"failed", "done"} /\ Readable(in_file) /\ ~HasMetadata(in_file)) =>
        /\ pc # "failed"
        /\ WritePath => (Readable(out_file) /\ MetadataIn(out_file) = metadata)

\* C8: a merge whose new entries hold a key without the prefix fails, so that
\* no foreign entry of the input is ever overwritten.
C8_StrayKeyIsRejected ==
    (WritePath /\ ~AllReserved(metadata)) =>
        /\ pc \notin {"merged", "opened", "done"}
        /\ pc = "done" =>
               ForeignOf(MetadataIn(in_file)) \subseteq ForeignOf(MetadataIn(out_file))

\* C9: the thumbnail entry is "data:image/<ext>;base64,<base64 of the PNG
\* bytes>", <ext> the extension of image_path without its dot.
C9_ThumbnailDataUri ==
    (WritePath /\ pc # "start" /\ image_path # <<>>) =>
        /\ HasKey(metadata, ThumbnailKey)
        /\ Get(metadata, ThumbnailKey)
             = PyStr(DataImage \o Tail(SplitExt(image_path)) \o Base64Comma
                     \o B64Encode(img))

====
